---- MODULE Spec2Model ----
(***************************************************************************)
(* A model of the jtagkey backend of the Cable trait (src/cable.rs,        *)
(* src/cable/jtagkey.rs): the MPSSE command stream each call builds and    *)
(* sends, and what that stream does to the TAP of the target it drives.    *)
(***************************************************************************)
EXTENDS Integers, Sequences, FiniteSets, TLC

VARIABLES
    tap,     \* TAP state of the target
    line,    \* level the TMS pin holds between commands (0 or 1)
    entry,   \* [tap, line] at the start of the last call
    call,    \* the last call: its name and arguments
    wire,    \* the builder's commands the last call sent, in order
    hw,      \* what the target drove on TDO during the last call
    ret,     \* the buffer the last call returned
    err,     \* "none", or "panic" when the last call panicked
    pending, \* the queued reads not yet finished, oldest first
    captured,\* every read queued so far with what it captured, in queue order
    finished,\* number of queued reads finish_read has returned
    reg,     \* the target's register between TDI and TDO, oldest bit first
             \* (<<>> where the target's data is left open)
    rx,      \* every command the adapter received so far, in order of arrival
    log      \* the calls made so far, in call order (kept along with rx)

vars == <<tap, line, entry, call, wire, hw, ret, err, pending, captured, finished,
          reg, rx, log>>

queue == <<pending, captured, finished>>

\* the target's register and the adapter's record, kept by the runs about them
bench == <<reg, rx, log>>

----------------------------------------------------------------------------
\* Bounds of the model.

\* longest TMS sequence given to change_mode as a single call
MaxTmsLen == 15
\* period of the TMS and TDO patterns
Period == 3
\* largest bit count given to read_data as a single call
MaxReadBits == 64
\* longest data buffer given to write_data as a single call
MaxData == 3
\* longest TMS sequence given to change_mode within a session
SessTmsLen == 5
\* largest bit count given to read_data within a session
SessReadBits == 9
\* reads the queue holds before queue_read returns false
QueueCap == 2
\* reads queued over one run of the queue
MaxQueued == 3
\* longest register of the loopback target, in bits
MaxLoopBits == 16
\* calls made in a run that records the adapter's stream
MaxCalls == 3

----------------------------------------------------------------------------
\* Bit arithmetic on u8 values.

Pow2(n) == 2 ^ n

\* bit i of a u8: there is none above bit 7
Bit(b, i) == IF i > 7 THEN 0 ELSE (b \div Pow2(i)) % 2

B2N(b) == IF b THEN 1 ELSE 0

RECURSIVE Concat(_)
Concat(ss) == IF ss = <<>> THEN <<>> ELSE Head(ss) \o Concat(Tail(ss))

----------------------------------------------------------------------------
\* The TAP controller of the target: the sixteen states and the fixed graph.

ShiftStates == {"ShiftDR", "ShiftIR"}

TapStates ==
    {"TestLogicReset", "RunIdle",
     "SelectDR", "CaptureDR", "ShiftDR", "Exit1DR", "PauseDR", "Exit2DR", "UpdateDR",
     "SelectIR", "CaptureIR", "ShiftIR", "Exit1IR", "PauseIR", "Exit2IR", "UpdateIR"}

TapNext(s, tms) ==
    CASE s = "TestLogicReset" -> IF tms = 1 THEN "TestLogicReset" ELSE "RunIdle"
      [] s = "RunIdle"   -> IF tms = 1 THEN "SelectDR" ELSE "RunIdle"
      [] s = "SelectDR"  -> IF tms = 1 THEN "SelectIR" ELSE "CaptureDR"
      [] s = "CaptureDR" -> IF tms = 1 THEN "Exit1DR" ELSE "ShiftDR"
      [] s = "ShiftDR"   -> IF tms = 1 THEN "Exit1DR" ELSE "ShiftDR"
      [] s = "Exit1DR"   -> IF tms = 1 THEN "UpdateDR" ELSE "PauseDR"
      [] s = "PauseDR"   -> IF tms = 1 THEN "Exit2DR" ELSE "PauseDR"
      [] s = "Exit2DR"   -> IF tms = 1 THEN "UpdateDR" ELSE "ShiftDR"
      [] s = "UpdateDR"  -> IF tms = 1 THEN "SelectDR" ELSE "RunIdle"
      [] s = "SelectIR"  -> IF tms = 1 THEN "TestLogicReset" ELSE "CaptureIR"
      [] s = "CaptureIR" -> IF tms = 1 THEN "Exit1IR" ELSE "ShiftIR"
      [] s = "ShiftIR"   -> IF tms = 1 THEN "Exit1IR" ELSE "ShiftIR"
      [] s = "Exit1IR"   -> IF tms = 1 THEN "UpdateIR" ELSE "PauseIR"
      [] s = "PauseIR"   -> IF tms = 1 THEN "Exit2IR" ELSE "PauseIR"
      [] s = "Exit2IR"   -> IF tms = 1 THEN "UpdateIR" ELSE "ShiftIR"
      [] s = "UpdateIR"  -> IF tms = 1 THEN "SelectDR" ELSE "RunIdle"

\* Every TAP state is entered on one TMS level only: the level the pin still
\* holds once the edge that entered the state has passed.
EntryLevel(s) == CHOOSE l \in {0, 1} : \E p \in TapStates : TapNext(p, l) = s

----------------------------------------------------------------------------
\* The MPSSE builder's commands, as the backend calls them.  A command is
\* [op, data, tdi, len]: data is the byte sequence of the payload.  Every
\* call is kept as the backend made it, a call of len 0 too: it clocks no edge.

clock_tms_out(builder, data, tdi, len) ==
    Append(builder, [op |-> "tms", data |-> <<data>>, tdi |-> B2N(tdi), len |-> len])

clock_data_out(builder, data) ==
    Append(builder, [op |-> "data_out", data |-> data, tdi |-> 0, len |-> Len(data)])

clock_bits_out(builder, data, len) ==
    Append(builder, [op |-> "bits_out", data |-> <<data>>, tdi |-> 0, len |-> len])

clock_data(builder, data) ==
    Append(builder, [op |-> "data_in", data |-> data, tdi |-> 0, len |-> Len(data)])

clock_bits(builder, data, len) ==
    Append(builder, [op |-> "bits_in", data |-> <<data>>, tdi |-> 0, len |-> len])

\* The TCK edges one command clocks, given the level the TMS pin holds:
\* a TMS command drives bits 0..len-1 of its byte on TMS with TDI held; a data
\* command drives its payload on TDI, least-significant bit first, TMS held.
CmdEdges(c, level) ==
    IF c.op \in {"tms", "tms_in"}
    THEN [i \in 1..c.len |-> [tms |-> Bit(c.data[1], i - 1), tdi |-> c.tdi, op |-> c.op]]
    ELSE IF c.op \in {"data_out", "data_in", "data_inout"}
    THEN [i \in 1..(8 * c.len) |->
            [tms |-> level,
             tdi |-> Bit(c.data[((i - 1) \div 8) + 1], (i - 1) % 8),
             op |-> c.op]]
    ELSE [i \in 1..c.len |-> [tms |-> level, tdi |-> Bit(c.data[1], i - 1), op |-> c.op]]

\* The level the TMS pin holds after a command.
LevelAfter(c, level) ==
    IF c.op \in {"tms", "tms_in"} /\ c.len > 0
    THEN Bit(c.data[1], c.len - 1) ELSE level

RECURSIVE StreamEdges(_, _)
StreamEdges(cmds, level) ==
    IF cmds = <<>> THEN <<>>
    ELSE CmdEdges(Head(cmds), level)
            \o StreamEdges(Tail(cmds), LevelAfter(Head(cmds), level))

RECURSIVE StreamLevel(_, _)
StreamLevel(cmds, level) ==
    IF cmds = <<>> THEN level
    ELSE StreamLevel(Tail(cmds), LevelAfter(Head(cmds), level))

\* The states the TAP passes through: Path(s, edges)[i] is the state the
\* i-th edge is taken in, and the last element is the state after them all.
RECURSIVE Path(_, _)
Path(s, edges) ==
    IF edges = <<>> THEN <<s>>
    ELSE <<s>> \o Path(TapNext(s, Head(edges).tms), Tail(edges))

Last(seq) == seq[Len(seq)]

----------------------------------------------------------------------------
\* JtagKey::change_mode

\* faulty variant: `buf = 0` left out after a chunk is sent
RECURSIVE change_mode_loop_stale(_, _, _, _, _)
change_mode_loop_stale(tms, tdo, count, buf, builder) ==
    IF tms = <<>>
    THEN clock_tms_out(builder, buf, tdo, count)
    ELSE LET buf1 == IF Head(tms) # 0 /\ Bit(buf, count) = 0
                     THEN buf + Pow2(count) ELSE buf
             count1 == count + 1
         IN  IF count1 = 7
             THEN change_mode_loop_stale(Tail(tms), tdo, 0, buf1,
                                         clock_tms_out(builder, buf1, tdo, count1))
             ELSE change_mode_loop_stale(Tail(tms), tdo, count1, buf1, builder)

\* faulty variant: a chunk is sent once it holds eight bits
RECURSIVE change_mode_loop_eight(_, _, _, _, _)
change_mode_loop_eight(tms, tdo, count, buf, builder) ==
    IF tms = <<>>
    THEN clock_tms_out(builder, buf, tdo, count)
    ELSE LET buf1 == IF Head(tms) # 0 THEN buf + Pow2(count) ELSE buf
             count1 == count + 1
         IN  IF count1 = 8
             THEN change_mode_loop_eight(Tail(tms), tdo, 0, 0,
                                         clock_tms_out(builder, buf1, tdo, count1))
             ELSE change_mode_loop_eight(Tail(tms), tdo, count1, buf1, builder)

RECURSIVE change_mode_loop(_, _, _, _, _)
change_mode_loop(tms, tdo, count, buf, builder) ==
    IF tms = <<>>
    THEN clock_tms_out(builder, buf, tdo, count)
    ELSE LET buf1 == IF Head(tms) # 0 /\ Bit(buf, count) = 0
                     THEN buf + Pow2(count) ELSE buf
             count1 == count + 1
         IN  IF count1 = 7
             THEN change_mode_loop(Tail(tms), tdo, 0, 0,
                                   clock_tms_out(builder, buf1, tdo, count1))
             ELSE change_mode_loop(Tail(tms), tdo, count1, buf1, builder)

\* faulty variant: the sequence is sent last element first
change_mode_reversed(tms, tdo) ==
    change_mode_loop([i \in 1..Len(tms) |-> tms[Len(tms) + 1 - i]], tdo, 0, 0, <<>>)

change_mode(tms, tdo) == change_mode_loop(tms, tdo, 0, 0, <<>>)

----------------------------------------------------------------------------
\* JtagKey::read_data

\* The value of a sequence of bits, first bit least significant.
RECURSIVE Pack(_)
Pack(bs) == IF bs = <<>> THEN 0 ELSE Head(bs) + 2 * Pack(Tail(bs))

\* What the adapter returns for the capturing commands of a stream: a byte
\* command packs eight TDO samples into a byte, first sample in bit 0; a bit
\* command of n bits shifts its samples in from bit 7, so that they end in
\* bits 8-n..7 and bits 0..8-n-1 keep what the shifter held before (junk).
RECURSIVE Capture(_, _, _)
Capture(cmds, tdo, junk) ==
    IF cmds = <<>> THEN <<>>
    ELSE LET c == Head(cmds)
         IN  IF c.op = "data_in"
             THEN [k \in 1..c.len |-> Pack(SubSeq(tdo, 8 * (k - 1) + 1, 8 * k))]
                  \o Capture(Tail(cmds), SubSeq(tdo, 8 * c.len + 1, Len(tdo)), junk)
             ELSE IF c.op = "bits_in"
             THEN <<(junk % Pow2(8 - c.len))
                     + Pack(SubSeq(tdo, 1, c.len)) * Pow2(8 - c.len)>>
                  \o Capture(Tail(cmds), SubSeq(tdo, c.len + 1, Len(tdo)), junk)
             ELSE Capture(Tail(cmds), tdo, junk)

\* faulty variant: zeros are clocked out
read_data_builder_zeros(bits0) ==
    LET bytes0 == bits0 \div 8
        bits == IF bytes0 > 0 THEN bits0 - bytes0 * 8 ELSE bits0
        b1 == IF bytes0 > 0
              THEN clock_data(<<>>, [i \in 1..bytes0 |-> 0])
              ELSE <<>>
        b2 == IF bits > 0 THEN clock_bits(b1, 0, bits) ELSE b1
        bytes == IF bits > 0 THEN bytes0 + 1 ELSE bytes0
    IN  [builder |-> b2, bytes |-> bytes, bits |-> bits]

\* The commands read_data builds: [builder, bytes, bits] as they stand at the
\* transfer (bytes is the length of the receive buffer, bits the remainder).
read_data_builder(bits0) ==
    LET bytes0 == bits0 \div 8
        bits == IF bytes0 > 0 THEN bits0 - bytes0 * 8 ELSE bits0
        b1 == IF bytes0 > 0
              THEN clock_data(<<>>, [i \in 1..bytes0 |-> 255])
              ELSE <<>>
        b2 == IF bits > 0 THEN clock_bits(b1, 255, bits) ELSE b1
        bytes == IF bits > 0 THEN bytes0 + 1 ELSE bytes0
    IN  [builder |-> b2, bytes |-> bytes, bits |-> bits]

\* faulty variant: the last byte is left as captured
read_data_buf_unshifted(xfer, bits) == xfer

\* faulty variant: the last byte is shifted by the remainder itself
read_data_buf_wrongshift(xfer, bits) ==
    IF bits > 0
    THEN [i \in 1..Len(xfer) |->
            IF i = Len(xfer) THEN xfer[i] \div Pow2(bits) ELSE xfer[i]]
    ELSE xfer

\* The buffer read_data returns, given what the transfer put in it.
read_data_buf(xfer, bits) ==
    IF bits > 0
    THEN [i \in 1..Len(xfer) |->
            IF i = Len(xfer) THEN xfer[i] \div Pow2(8 - bits) ELSE xfer[i]]
    ELSE xfer

read_data(bits0, tdo, junk) ==
    LET b == read_data_builder(bits0)
        xfer == SubSeq(Capture(b.builder, tdo, junk), 1, b.bytes)
    IN  [builder |-> b.builder, buf |-> read_data_buf(xfer, b.bits)]

----------------------------------------------------------------------------
\* JtagKey::write_data

\* [panic, builder]: the commands write_data sends, or a panic before it
\* sends any.  bits = 0 makes `bits -= 1` overflow on a u8: a panic in a build
\* that checks overflow (checked), and 255 in a build that does not.

\* faulty variant: the bit above the last one is taken
last_bit_next(last_byte, bits) == Bit(last_byte, bits + 1) # 0

\* last_byte & (1 << bits) != 0, the shift of a u8 taken modulo its width
last_bit_of(last_byte, bits) == Bit(last_byte, bits % 8) # 0

\* faulty variant: the two-step command whatever pause_after is
write_data_tms_both(builder, pause_after, last_bit) ==
    clock_tms_out(builder, 1, last_bit, 2)

\* faulty variant: the one-step command whatever pause_after is
write_data_tms_never(builder, pause_after, last_bit) ==
    clock_tms_out(builder, 0, last_bit, 1)

\* faulty variant: the one-step command drives TMS high
write_data_tms_exit(builder, pause_after, last_bit) ==
    IF pause_after
    THEN clock_tms_out(builder, 1, last_bit, 2)
    ELSE clock_tms_out(builder, 1, last_bit, 1)

\* the TMS command that ends the write, the last bit on TDI
write_data_tms(builder, pause_after, last_bit) ==
    IF pause_after
    THEN clock_tms_out(builder, 1, last_bit, 2)
    ELSE clock_tms_out(builder, 0, last_bit, 1)

\* assert!(bits <= 8)
write_data_assert(bits0) == bits0 <= 8

write_data(data, bits0, pause_after, checked) ==
    IF ~write_data_assert(bits0) \/ (bits0 = 0 /\ checked) \/ Len(data) = 0
    THEN [panic |-> TRUE, builder |-> <<>>]
    ELSE LET bits == (bits0 - 1) % 256
             b1 == IF Len(data) > 1
                   THEN clock_data_out(<<>>, SubSeq(data, 1, Len(data) - 1))
                   ELSE <<>>
             last_byte == data[Len(data)]
             b2 == IF bits > 1 THEN clock_bits_out(b1, last_byte, bits) ELSE b1
             last_bit == last_bit_of(last_byte, bits)
         IN  [panic |-> FALSE, builder |-> write_data_tms(b2, pause_after, last_bit)]

----------------------------------------------------------------------------
\* The inputs the calls are given.

TmsVals == {0, 1, 2}

ByteVals == {0, 84, 171}

\* Sequences of length 0..maxLen that repeat a word of `period` values.
Patterns(vals, maxLen, period) ==
    {[i \in 1..n |-> seed[((i - 1) % period) + 1]] :
        n \in 0..maxLen, seed \in [1..period -> vals]}

PatternsOfLen(vals, n, period) ==
    {[i \in 1..n |-> seed[((i - 1) % period) + 1]] : seed \in [1..period -> vals]}

RECURSIVE SeqsUpTo(_, _)
SeqsUpTo(vals, n) ==
    IF n = 0 THEN {<<>>}
    ELSE LET shorter == SeqsUpTo(vals, n - 1)
         IN  shorter \cup {Append(s, v) : s \in {t \in shorter : Len(t) = n - 1}, v \in vals}

NoCall == [op |-> "new", tms |-> <<>>, tdo |-> FALSE, data |-> <<>>, bits |-> 0,
           pause |-> FALSE]

NoHw == [tdo |-> <<>>, junk |-> 0]

----------------------------------------------------------------------------
\* The calls, as steps of a session.

\* The lengths the adapter's commands are defined for: a bit command clocks
\* at most the 8 bits of its byte, a TMS command at most 7.
WellFormed(builder) ==
    \A k \in 1..Len(builder) :
        /\ builder[k].op \in {"bits_out", "bits_in", "bits_inout"} => builder[k].len <= 8
        /\ builder[k].op \in {"tms", "tms_in"} => builder[k].len <= 7

\* ft.send / ft.xfer: the commands reach the adapter and the TAP follows.
\* What the adapter clocks for a command of a length it is not defined for is
\* open: the TAP may be left in any state.
Send(builder) ==
    /\ err = "none"
    /\ wire' = builder
    /\ entry' = [tap |-> tap, line |-> line]
    /\ IF WellFormed(builder)
       THEN /\ tap' = Last(Path(tap, StreamEdges(builder, line)))
            /\ line' = StreamLevel(builder, line)
       ELSE /\ tap' \in TapStates
            /\ line' = EntryLevel(tap')

ChangeMode(tms, tdo) ==
    /\ call' = [NoCall EXCEPT !.op = "change_mode", !.tms = tms, !.tdo = tdo]
    /\ Send(change_mode(tms, tdo))
    /\ hw' = NoHw
    /\ ret' = <<>>
    /\ err' = "none"
    /\ UNCHANGED queue

ReadData(bits, tdo, junk) ==
    LET r == read_data(bits, tdo, junk)
    IN  /\ call' = [NoCall EXCEPT !.op = "read_data", !.bits = bits]
        /\ Send(r.builder)
        /\ hw' = [tdo |-> tdo, junk |-> junk]
        /\ ret' = r.buf
        /\ err' = "none"
        /\ UNCHANGED queue

\* the build is one that checks arithmetic overflow, or one that does not
WriteData(data, bits, pause_after) ==
    \E checked \in BOOLEAN :
        LET w == write_data(data, bits, pause_after, checked)
        IN  /\ call' = [NoCall EXCEPT !.op = "write_data", !.data = data,
                                      !.bits = bits, !.pause = pause_after]
            /\ Send(w.builder)
            /\ hw' = NoHw
            /\ ret' = <<>>
            /\ err' = IF w.panic THEN "panic" ELSE "none"
            /\ UNCHANGED queue

\* A session: the target powers up in TestLogicReset, JtagKey::new drives
\* TMS high, and the caller makes any calls in any order.
Init ==
    /\ tap = "TestLogicReset"
    /\ line = 1
    /\ entry = [tap |-> "TestLogicReset", line |-> 1]
    /\ call = NoCall
    /\ wire = <<>>
    /\ hw = NoHw
    /\ ret = <<>>
    /\ err = "none"
    /\ pending = <<>>
    /\ captured = <<>>
    /\ finished = 0
    /\ reg = <<>>
    /\ rx = <<>>
    /\ log = <<>>

SessChangeMode ==
    /\ \E tms \in SeqsUpTo({0, 1}, SessTmsLen), tdo \in BOOLEAN : ChangeMode(tms, tdo)
    /\ UNCHANGED bench

SessReadData ==
    /\ \E bits \in 0..SessReadBits :
          \E tdo \in PatternsOfLen({0, 1}, bits, 1), junk \in {0, 255} :
              ReadData(bits, tdo, junk)
    /\ UNCHANGED bench

SessWriteData ==
    /\ \E data \in SeqsUpTo({84, 171}, 1) \ {<<>>}, bits \in 1..8,
          pause_after \in BOOLEAN :
            WriteData(data, bits, pause_after)
    /\ UNCHANGED bench

Next == SessChangeMode \/ SessReadData \/ SessWriteData

Spec == Init /\ [][Next]_vars

\* One call with the session in any state it can be in: the TAP in any of its
\* states, the TMS pin at the level that state was entered on.
InitCall ==
    /\ tap \in TapStates
    /\ line = EntryLevel(tap)
    /\ entry = [tap |-> tap, line |-> line]
    /\ call = NoCall
    /\ wire = <<>>
    /\ hw = NoHw
    /\ ret = <<>>
    /\ err = "none"
    /\ pending = <<>>
    /\ captured = <<>>
    /\ finished = 0
    /\ reg = <<>>
    /\ rx = <<>>
    /\ log = <<>>

CallChangeMode ==
    /\ call.op = "new"
    /\ \E tms \in Patterns(TmsVals, MaxTmsLen, Period), tdo \in BOOLEAN :
          ChangeMode(tms, tdo)
    /\ UNCHANGED bench

CallReadData ==
    /\ call.op = "new"
    /\ \E bits \in 0..MaxReadBits :
          \E tdo \in PatternsOfLen({0, 1}, bits, Period), junk \in {0, 255} :
              ReadData(bits, tdo, junk)
    /\ UNCHANGED bench

CallWriteData ==
    /\ call.op = "new"
    /\ \E data \in SeqsUpTo(ByteVals, MaxData), bits \in 0..9, pause_after \in BOOLEAN :
          WriteData(data, bits, pause_after)
    /\ UNCHANGED bench

NextCall == CallChangeMode \/ CallReadData \/ CallWriteData

SpecCall == InitCall /\ [][NextCall]_vars

----------------------------------------------------------------------------
\* The queued reads.  The jtagkey backend under src/ stops at write_data:
\* read_write_data, queue_read, queue_read_write and finish_read are modelled
\* from the trait's contract (src/cable.rs) and the specification.

\* a bit sequence packed into bytes, least-significant bit first, the unused
\* high bits of the last byte zero
PackBytes(bs) ==
    [k \in 1..((Len(bs) + 7) \div 8) |->
        Pack(SubSeq(bs, 8 * (k - 1) + 1, IF 8 * k < Len(bs) THEN 8 * k ELSE Len(bs)))]

\* read_write_data: the clocking of a write, every edge capturing TDO; the
\* capture of the last bit's edge is part of the buffer.
read_write_data(data, bits0, pause_after, tdo) ==
    IF bits0 > 8 \/ bits0 = 0 \/ Len(data) = 0
    THEN [panic |-> TRUE, builder |-> <<>>, buf |-> <<>>]
    ELSE LET bits == bits0 - 1
             b1 == IF Len(data) > 1
                   THEN <<[op |-> "data_inout", data |-> SubSeq(data, 1, Len(data) - 1),
                           tdi |-> 0, len |-> Len(data) - 1]>>
                   ELSE <<>>
             last_byte == data[Len(data)]
             b2 == IF bits > 0
                   THEN Append(b1, [op |-> "bits_inout", data |-> <<last_byte>>,
                                    tdi |-> 0, len |-> bits])
                   ELSE b1
             b3 == Append(b2, [op |-> "tms_in",
                               data |-> <<IF pause_after THEN 1 ELSE 0>>,
                               tdi |-> Bit(last_byte, bits),
                               len |-> IF pause_after THEN 2 ELSE 1])
             n == 8 * (Len(data) - 1) + bits0
         IN  [panic |-> FALSE, builder |-> b3, buf |-> PackBytes(SubSeq(tdo, 1, n))]

\* faulty variant: one read more than the capacity is taken
queue_push_late(q, bits, buf) ==
    IF Len(q) <= QueueCap
    THEN [ok |-> TRUE, pending |-> Append(q, [bits |-> bits, buf |-> buf])]
    ELSE [ok |-> FALSE, pending |-> q]

\* queue_read / queue_read_write: with room in the queue the read is made
\* and recorded as pending with what it captured; without, nothing is done.
queue_push(q, bits, buf) ==
    IF Len(q) < QueueCap
    THEN [ok |-> TRUE, pending |-> Append(q, [bits |-> bits, buf |-> buf])]
    ELSE [ok |-> FALSE, pending |-> q]

\* faulty variant: the newest pending read is returned
finish_read_newest(q, bits) ==
    IF q = <<>> \/ Last(q).bits # bits
    THEN [panic |-> TRUE, buf |-> <<>>, pending |-> q]
    ELSE [panic |-> FALSE, buf |-> Last(q).buf, pending |-> SubSeq(q, 1, Len(q) - 1)]

\* faulty variant: the bit count asked for is not compared
finish_read_any(q, bits) ==
    IF q = <<>>
    THEN [panic |-> TRUE, buf |-> <<>>, pending |-> q]
    ELSE [panic |-> FALSE, buf |-> Head(q).buf, pending |-> Tail(q)]

\* finish_read: the oldest pending read is popped and its capture returned;
\* no pending read, or another bit count than it was queued with, is flagged.
finish_read(q, bits) ==
    IF q = <<>> \/ Head(q).bits # bits
    THEN [panic |-> TRUE, buf |-> <<>>, pending |-> q]
    ELSE [panic |-> FALSE, buf |-> Head(q).buf, pending |-> Tail(q)]

QueueRead(bits, tdo, junk) ==
    LET r == read_data(bits, tdo, junk)
        q == queue_push(pending, bits, r.buf)
    IN  /\ Len(captured) < MaxQueued
        /\ call' = [NoCall EXCEPT !.op = "queue_read", !.bits = bits]
        /\ Send(IF q.ok THEN r.builder ELSE <<>>)
        /\ hw' = IF q.ok THEN [tdo |-> tdo, junk |-> junk] ELSE NoHw
        /\ ret' = <<B2N(q.ok)>>
        /\ err' = "none"
        /\ pending' = q.pending
        /\ captured' = IF q.ok THEN Append(captured, [bits |-> bits, buf |-> r.buf])
                       ELSE captured
        /\ UNCHANGED finished

QueueReadWrite(data, bits, pause_after, tdo) ==
    LET r == read_write_data(data, bits, pause_after, tdo)
        n == 8 * (Len(data) - 1) + bits
        q == queue_push(pending, n, r.buf)
    IN  /\ Len(captured) < MaxQueued
        /\ call' = [NoCall EXCEPT !.op = "queue_read_write", !.data = data,
                                  !.bits = bits, !.pause = pause_after]
        /\ Send(IF q.ok THEN r.builder ELSE <<>>)
        /\ hw' = IF q.ok THEN [tdo |-> tdo, junk |-> 0] ELSE NoHw
        /\ ret' = <<B2N(q.ok)>>
        /\ err' = "none"
        /\ pending' = q.pending
        /\ captured' = IF q.ok THEN Append(captured, [bits |-> n, buf |-> r.buf])
                       ELSE captured
        /\ UNCHANGED finished

FinishRead(bits) ==
    LET f == finish_read(pending, bits)
    IN  /\ call' = [NoCall EXCEPT !.op = "finish_read", !.bits = bits]
        /\ Send(<<>>)
        /\ hw' = NoHw
        /\ ret' = f.buf
        /\ err' = IF f.panic THEN "panic" ELSE "none"
        /\ pending' = f.pending
        /\ finished' = IF f.panic THEN finished ELSE finished + 1
        /\ UNCHANGED captured

\* Cable::flush, the trait's default body, which JtagKey inherits: empty.
\* s is what a flush could touch: [tap, line, pending, sent], sent the
\* commands it hands to the adapter.

\* faulty variant: the pending reads are dropped
flush_drops(s) == [s EXCEPT !.pending = <<>>]

flush(s) == s

Flush ==
    LET s == flush([tap |-> tap, line |-> line, pending |-> pending, sent |-> <<>>])
    IN  /\ err = "none"
        /\ call' = [NoCall EXCEPT !.op = "flush"]
        /\ wire' = s.sent
        /\ entry' = [tap |-> tap, line |-> line]
        /\ tap' = s.tap
        /\ line' = s.line
        /\ pending' = s.pending
        /\ hw' = NoHw
        /\ ret' = <<>>
        /\ err' = "none"
        /\ UNCHANGED <<captured, finished>>

\* A session brought to a Shift state, on which reads are queued and finished.
InitQueue ==
    /\ tap \in ShiftStates
    /\ line = EntryLevel(tap)
    /\ entry = [tap |-> tap, line |-> line]
    /\ call = NoCall
    /\ wire = <<>>
    /\ hw = NoHw
    /\ ret = <<>>
    /\ err = "none"
    /\ pending = <<>>
    /\ captured = <<>>
    /\ finished = 0
    /\ reg = <<>>
    /\ rx = <<>>
    /\ log = <<>>

QReadBits == {3, 8, 16}

NextQueue ==
    \/ /\ \E bits \in QReadBits :
             \E tdo \in PatternsOfLen({0, 1}, bits, 1) :
                 QueueRead(bits, tdo, 255)
       /\ UNCHANGED bench
    \/ /\ \E pause_after \in BOOLEAN, tdo \in PatternsOfLen({0, 1}, 8, 1) :
             QueueReadWrite(<<171>>, 8, pause_after, tdo)
       /\ UNCHANGED bench
    \/ /\ \E bits \in QReadBits : FinishRead(bits)
       /\ UNCHANGED bench
    \/ /\ Flush
       /\ UNCHANGED bench

SpecQueue == InitQueue /\ [][NextQueue]_vars

----------------------------------------------------------------------------
\* What the last call did, read off the commands it sent.

\* the TCK edges of the last call, and the TAP state each was taken in
Edges == StreamEdges(wire, entry.line)

States == Path(entry.tap, Edges)

RECURSIVE SelectTdi(_, _)
SelectTdi(edges, states) ==
    IF edges = <<>> THEN <<>>
    ELSE (IF Head(states) \in ShiftStates THEN <<Head(edges).tdi>> ELSE <<>>)
            \o SelectTdi(Tail(edges), Tail(states))

\* the TDI values of the edges taken with the TAP in a Shift state, in order:
\* the bits the target's register shifted in
ShiftedIn == SelectTdi(Edges, States)

\* the edges clocked by data commands (every command but the TMS ones)
DataEdges == SelectSeq(Edges, LAMBDA e : e.op # "tms")

ByteBits(b, n) == [i \in 1..n |-> Bit(b, i - 1)]

\* the bits a write of (data, bits) is to deliver, in shift order
DataBits(data, bits) ==
    Concat([k \in 1..(Len(data) - 1) |-> ByteBits(data[k], 8)])
        \o ByteBits(data[Len(data)], bits)

Exit1Of(s) == IF s = "ShiftIR" THEN "Exit1IR" ELSE "Exit1DR"

PauseOf(s) == IF s = "ShiftIR" THEN "PauseIR" ELSE "PauseDR"

\* the last call was a write_data that met its contract: made in a Shift
\* state, with non-empty data and bits in 1..8
Wrote ==
    /\ call.op = "write_data"
    /\ entry.tap \in ShiftStates
    /\ Len(call.data) > 0
    /\ call.bits \in 1..8

TypeOK ==
    /\ tap \in TapStates
    /\ line \in {0, 1}
    /\ line = EntryLevel(tap)
    /\ err \in {"none", "panic"}

----------------------------------------------------------------------------
\* The loopback: a target whose register between TDI and TDO is as long as
\* the pattern written.  On every edge taken in a Shift state the register
\* drives its oldest bit on TDO and takes the TDI bit in at the other end.

\* [reg, out]: the register after it took in tdis, and the bits it drove
RECURSIVE ShiftThrough(_, _)
ShiftThrough(r, tdis) ==
    IF tdis = <<>> THEN [reg |-> r, out |-> <<>>]
    ELSE LET rest == ShiftThrough(Tail(r) \o <<Head(tdis)>>, Tail(tdis))
         IN  [reg |-> rest.reg, out |-> <<Head(r)>> \o rest.out]

\* the TDI bits a stream sent now makes the target's register take in
TakenIn(builder) ==
    LET edges == StreamEdges(builder, line)
    IN  SelectTdi(edges, Path(tap, edges))

ReadWriteData(data, bits, pause_after, tdo) ==
    LET r == read_write_data(data, bits, pause_after, tdo)
    IN  /\ call' = [NoCall EXCEPT !.op = "read_write_data", !.data = data,
                                  !.bits = bits, !.pause = pause_after]
        /\ Send(r.builder)
        /\ hw' = [tdo |-> tdo, junk |-> 0]
        /\ ret' = r.buf
        /\ err' = IF r.panic THEN "panic" ELSE "none"
        /\ UNCHANGED queue

InitLoop ==
    /\ tap \in ShiftStates
    /\ line = EntryLevel(tap)
    /\ entry = [tap |-> tap, line |-> line]
    /\ call = NoCall
    /\ wire = <<>>
    /\ hw = NoHw
    /\ ret = <<>>
    /\ err = "none"
    /\ pending = <<>>
    /\ captured = <<>>
    /\ finished = 0
    /\ reg \in UNION {PatternsOfLen({0, 1}, n, 1) : n \in 1..MaxLoopBits}
    /\ rx = <<>>
    /\ log = <<>>

\* a pattern as long as the register is written, the TAP kept in Shift
LoopWrite ==
    /\ call.op = "new"
    /\ \E data \in SeqsUpTo(ByteVals, (MaxLoopBits + 7) \div 8) \ {<<>>}, bits \in 1..8 :
          /\ 8 * (Len(data) - 1) + bits = Len(reg)
          /\ WriteData(data, bits, FALSE)
          /\ reg' = ShiftThrough(reg, TakenIn(wire')).reg
    /\ UNCHANGED <<rx, log>>

\* as many bits are shifted through with read_write_data, TDO captured
LoopReadWrite ==
    /\ call.op = "write_data"
    /\ err = "none"
    /\ \E fill \in {0, 255}, pause_after \in BOOLEAN :
          LET data == [k \in 1..Len(call.data) |-> fill]
              \* the commands do not depend on what is captured
              sent == read_write_data(data, call.bits, pause_after, reg).builder
              st == ShiftThrough(reg, TakenIn(sent))
          IN  /\ ReadWriteData(data, call.bits, pause_after, st.out)
              /\ reg' = st.reg
    /\ UNCHANGED <<rx, log>>

NextLoop == LoopWrite \/ LoopReadWrite

SpecLoop == InitLoop /\ [][NextLoop]_vars

----------------------------------------------------------------------------
\* The adapter's record: every command it received, over a session of a few
\* calls.

\* faulty variant: the commands are put ahead of those sent before
send_ahead(received, builder) == builder \o received

\* ft.send / ft.xfer: the call's commands reach the adapter, after all that
\* reached it before
send(received, builder) == received \o builder

\* the commands a call builds
Built(c) ==
    CASE c.op = "change_mode" -> change_mode(c.tms, c.tdo)
      [] c.op = "read_data" -> read_data_builder(c.bits).builder
      [] c.op = "write_data" -> write_data(c.data, c.bits, c.pause, TRUE).builder
      [] OTHER -> <<>>

Record ==
    /\ Len(log) < MaxCalls
    /\ rx' = send(rx, wire')
    /\ log' = Append(log, call')
    /\ UNCHANGED reg

OrderTms == {<<1>>, <<0, 1, 1, 0, 0>>, <<1, 1, 1, 1, 1, 1, 1, 1>>}

OrderChangeMode ==
    /\ \E tms \in OrderTms : ChangeMode(tms, FALSE)
    /\ Record

OrderReadData ==
    /\ \E bits \in {3, 8} : ReadData(bits, [i \in 1..bits |-> 1], 0)
    /\ Record

OrderWriteData ==
    /\ \E data \in {<<171>>, <<84, 171>>}, pause_after \in BOOLEAN :
          WriteData(data, 8, pause_after)
    /\ Record

NextOrder == OrderChangeMode \/ OrderReadData \/ OrderWriteData

SpecOrder == Init /\ [][NextOrder]_vars

----------------------------------------------------------------------------
\* write_data and the state of the TAP.

\* C1 (as stated): after write_data in a Shift state with pause_after = false
\* the TAP is in the matching Exit1 state.
C1_EndsInExit1 ==
    (Wrote /\ ~call.pause) => tap = Exit1Of(entry.tap)

\* C1 (amended): with pause_after = false the last command write_data sends
\* is a TMS command of a single step whose TMS bit is 0, so the step is taken
\* in Shift and ends in the same Shift state, not in Exit1.
C1_SingleStepHoldsShift ==
    (Wrote /\ ~call.pause) =>
        /\ err = "none"
        /\ Last(wire).op = "tms"
        /\ Last(wire).len = 1
        /\ Bit(Last(wire).data[1], 0) = 0
        /\ States[Len(States) - 1] = entry.tap
        /\ tap = entry.tap
        /\ tap # Exit1Of(entry.tap)

C1_Witness ==
    /\ Wrote /\ ~call.pause
    /\ call.bits = 8
    /\ entry.tap = "ShiftDR"
    /\ tap = "ShiftDR"
    /\ Len(wire) = 2

\* C2: after write_data in a Shift state with pause_after = true the TAP is
\* in the matching Pause state, reached by the two steps of the last
\* command: Shift -> Exit1 -> Pause.
C2_EndsInPause ==
    (Wrote /\ call.pause) =>
        LET states == States
            n == Len(states)
        IN  /\ err = "none"
            /\ Last(wire).op = "tms"
            /\ Last(wire).len = 2
            /\ n >= 3
            /\ states[n - 2] = entry.tap
            /\ states[n - 1] = Exit1Of(entry.tap)
            /\ states[n] = PauseOf(entry.tap)
            /\ tap = PauseOf(entry.tap)

C2_Witness ==
    /\ Wrote /\ call.pause
    /\ Len(call.data) = 2
    /\ entry.tap = "ShiftIR"
    /\ tap = "PauseIR"

\* C3: after write_data in a Shift state with pause_after = false the TAP
\* never left that state: every edge of the call was taken in it and the
\* call returns with the TAP in it.
C3_StateUnchanged ==
    (Wrote /\ ~call.pause) =>
        LET states == States
        IN  /\ \A i \in 1..Len(states) : states[i] = entry.tap
            /\ tap = entry.tap

C3_Witness ==
    /\ Wrote /\ ~call.pause
    /\ Len(call.data) = 2
    /\ call.bits = 5
    /\ entry.tap = "ShiftIR"
    /\ tap = "ShiftIR"
    /\ Len(Edges) = 13

\* C4: write_data makes the target shift in exactly 8*(len(data)-1) + bits
\* bits: the bytes before the last in buffer order, each least-significant
\* bit first, then bits 0..bits-1 of the last byte.
C4_AllBitsShifted ==
    Wrote =>
        /\ Len(ShiftedIn) = 8 * (Len(call.data) - 1) + call.bits
        /\ ShiftedIn = DataBits(call.data, call.bits)

\* C5: the TDI value of the last command write_data sends, a TMS command, is
\* bit bits-1 of the last byte, and the data commands before it clock at
\* most the 8*(len(data)-1) + bits - 1 bits that precede that bit.
C5_LastBitOnTms ==
    (call.op = "write_data" /\ Len(call.data) > 0 /\ call.bits \in 1..8) =>
        /\ err = "none"
        /\ Last(wire).op = "tms"
        /\ Last(wire).tdi = Bit(call.data[Len(call.data)], call.bits - 1)
        /\ \A k \in 1..(Len(wire) - 1) : wire[k].op \in {"data_out", "bits_out"}
        /\ LET clocked == DataEdges
               all == DataBits(call.data, call.bits)
           IN  /\ Len(clocked) <= 8 * (Len(call.data) - 1) + call.bits - 1
               /\ \A i \in 1..Len(clocked) : clocked[i].tdi = all[i]

C5_Witness ==
    /\ call.op = "write_data"
    /\ call.data = <<171, 84>>
    /\ call.bits = 7
    /\ call.pause
    /\ Last(wire).tdi = 1
    /\ Len(DataEdges) = 14

\* C14: write_data given a bit count outside 1..8 panics before it sends
\* anything: no command reaches the adapter and the TAP is where it was.
C14_RejectsBadBits ==
    (call.op = "write_data" /\ call.bits \notin 1..8) =>
        /\ err = "panic"
        /\ wire = <<>>
        /\ tap = entry.tap

----------------------------------------------------------------------------
\* read_data.

\* C6: read_data(n), n >= 1, returns ceil(n/8) bytes, and when n is not a
\* multiple of 8 bits (n mod 8)..7 of the last byte are zero, whatever the
\* adapter captured.
C6_LengthAndHighBits ==
    (call.op = "read_data" /\ call.bits >= 1) =>
        /\ Len(ret) = (call.bits + 7) \div 8
        /\ \A i \in 1..Len(ret) : ret[i] \in 0..255
        /\ (call.bits % 8 # 0) =>
              \A j \in (call.bits % 8)..7 : Bit(ret[Len(ret)], j) = 0

C6_Witness ==
    /\ call.op = "read_data"
    /\ call.bits = 13
    /\ hw.junk = 255
    /\ Len(ret) = 2
    /\ ret[2] = 31

\* C7: read_data(bits) made in a Shift state clocks exactly `bits` edges,
\* 8*(bits div 8) of them by the byte command and bits mod 8 by the bit
\* command, with TDI at 1 on every edge, sends no TMS command, and returns
\* with the TAP in the same Shift state.
C7_ReadStaysInShift ==
    (call.op = "read_data" /\ entry.tap \in ShiftStates) =>
        LET edges == Edges
            states == Path(entry.tap, edges)
        IN  /\ err = "none"
            /\ Len(edges) = call.bits
            /\ Cardinality({i \in 1..Len(edges) : edges[i].op = "data_in"})
                  = 8 * (call.bits \div 8)
            /\ Cardinality({i \in 1..Len(edges) : edges[i].op = "bits_in"})
                  = call.bits % 8
            /\ \A i \in 1..Len(edges) : edges[i].tdi = 1
            /\ \A k \in 1..Len(wire) : wire[k].op # "tms"
            /\ \A i \in 1..Len(states) : states[i] = entry.tap
            /\ tap = entry.tap

C7_Witness ==
    /\ call.op = "read_data"
    /\ call.bits = 19
    /\ entry.tap = "ShiftDR"
    /\ tap = "ShiftDR"
    /\ Len(wire) = 2

\* C17: bit i (from 0) of the buffer read_data(n) returns, n >= 1, is the
\* TDO value of the (i+1)-th edge: the whole bytes hold eight captures each,
\* the first in bit 0, and when n is not a multiple of 8 the last byte holds
\* the n mod 8 captures of the bit command, delivered by the adapter in the
\* high bits, moved down to bits 0..(n mod 8)-1 in capture order.
C17_BitsInCaptureOrder ==
    (call.op = "read_data" /\ call.bits >= 1) =>
        /\ Len(hw.tdo) = call.bits
        /\ \A i \in 0..(call.bits - 1) :
              Bit(ret[(i \div 8) + 1], i % 8) = hw.tdo[i + 1]
        /\ (call.bits % 8 # 0) =>
              ret[Len(ret)] = Pack(SubSeq(hw.tdo, 8 * (call.bits \div 8) + 1, call.bits))

C17_Witness ==
    /\ call.op = "read_data"
    /\ call.bits = 11
    /\ hw.junk = 255
    /\ hw.tdo[9] = 0
    /\ hw.tdo[10] = 1
    /\ hw.tdo[11] = 0
    /\ ret[2] = 2

----------------------------------------------------------------------------
\* change_mode.

\* the reference: the whole sequence clocked in one go, element i as TMS = 1
\* iff tms[i] # 0, TDI held at tdo
Reference(tms, tdo) ==
    [i \in 1..Len(tms) |->
        [tms |-> IF tms[i] # 0 THEN 1 ELSE 0, tdi |-> B2N(tdo), op |-> "tms"]]

\* C8: the edges of the chunks change_mode sends, in order, are those of the
\* reference: the same TMS bits, TDI at tdo on every edge, hence the same
\* path of TAP states and the same final state.
C8_ChunksMatchReference ==
    (call.op = "change_mode") =>
        LET ref == Reference(call.tms, call.tdo)
            path == Path(entry.tap, ref)
        IN  /\ err = "none"
            /\ \A k \in 1..Len(wire) : wire[k].op = "tms"
            /\ Edges = ref
            /\ States = path
            /\ tap = Last(path)

C8_Witness ==
    /\ call.op = "change_mode"
    /\ Len(call.tms) = 14
    /\ call.tms[1] = 2
    /\ call.tms[2] = 0
    /\ call.tdo
    /\ Len(wire) = 3
    /\ tap # entry.tap

\* C18: every command change_mode sends is a TMS command of at most 7 bits,
\* its TMS bits in bits 0..6 of the command byte: bit 7 and the bits from
\* the command's length up are zero.
C18_AtMostSevenBits ==
    (call.op = "change_mode") =>
        \A k \in 1..Len(wire) :
            /\ wire[k].op = "tms"
            /\ wire[k].len <= 7
            /\ wire[k].data[1] < Pow2(wire[k].len)
            /\ Bit(wire[k].data[1], 7) = 0

C18_Witness ==
    /\ call.op = "change_mode"
    /\ Len(call.tms) = 15
    /\ Len(wire) = 3
    /\ wire[1].len = 7
    /\ wire[1].data[1] = 127
    /\ wire[3].len = 1

\* C19: every command change_mode sends carries at least one TMS bit, and
\* it sends ceil(len(tms)/7) commands: none for an empty sequence, and no
\* command after the last full chunk when the length is a multiple of 7.
C19_NoEmptyCommand ==
    (call.op = "change_mode") =>
        /\ \A k \in 1..Len(wire) : wire[k].len >= 1
        /\ Len(wire) = (Len(call.tms) + 6) \div 7

----------------------------------------------------------------------------
\* The end-to-end scenario.

\* change_mode(seq, false) made in TestLogicReset, then write_data([0xAB], 8, true)
ScenarioStep(seq) ==
    /\ call.op = "change_mode"
    /\ call.tms = seq
    /\ ~call.tdo
    /\ entry.tap = "TestLogicReset"
    /\ call'.op = "write_data"
    /\ call'.data = <<171>>
    /\ call'.bits = 8
    /\ call'.pause

ScenarioOutcome ==
    /\ tap = "ShiftIR"
    /\ err = "none"
    /\ tap' = "PauseIR"
    /\ err' = "none"

\* C9 (as stated): from TestLogicReset, change_mode([1,1,0], false) brings
\* the TAP to ShiftIR, the following write_data([0xAB], 8, true) leaves it in
\* PauseIR, and neither call fails.
C9_Scenario110 == [][ScenarioStep(<<1, 1, 0>>) => ScenarioOutcome]_vars

\* C9 (amended): from TestLogicReset it is change_mode([0,1,1,0,0], false)
\* that brings the TAP to ShiftIR; the following write_data([0xAB], 8, true)
\* leaves it in PauseIR, and neither call fails.
C9_Scenario01100 == [][ScenarioStep(<<0, 1, 1, 0, 0>>) => ScenarioOutcome]_vars

C9_Witness ==
    /\ call.op = "write_data"
    /\ call.data = <<171>>
    /\ call.bits = 8
    /\ call.pause
    /\ entry.tap = "ShiftIR"
    /\ tap = "PauseIR"
    /\ err = "none"
    /\ Len(wire) = 2

----------------------------------------------------------------------------
\* The queue.

\* C10: queued reads are finished oldest first: the k-th finish_read that
\* returns gives back what the k-th queued read captured, with its bit count,
\* and the pending reads are exactly the queued ones not yet returned, so
\* that each is returned once.
C10_FifoOrder ==
    /\ finished <= Len(captured)
    /\ pending = SubSeq(captured, finished + 1, Len(captured))
    /\ (call.op = "finish_read" /\ err = "none") =>
          /\ finished >= 1
          /\ ret = captured[finished].buf
          /\ call.bits = captured[finished].bits

C10_Witness ==
    /\ call.op = "finish_read"
    /\ err = "none"
    /\ finished = 2
    /\ Len(captured) = 2
    /\ captured[1].bits = 8
    /\ captured[2].bits = 16
    /\ captured[1].buf = <<255>>
    /\ ret = <<0, 0>>
    /\ pending = <<>>

\* C11: queue_read and queue_read_write made with the queue at its capacity
\* return false, record no pending read and send nothing, the TAP left where
\* it was; made with room in the queue, as after finish_read took a read off
\* a full queue, they return true, send their commands and add one pending
\* read.
C11_FullQueueRefuses ==
    [][call'.op \in {"queue_read", "queue_read_write"} =>
          IF Len(pending) < QueueCap
          THEN /\ ret' = <<1>>
               /\ wire' # <<>>
               /\ Len(pending') = Len(pending) + 1
               /\ SubSeq(pending', 1, Len(pending)) = pending
               /\ Len(captured') = Len(captured) + 1
          ELSE /\ ret' = <<0>>
               /\ wire' = <<>>
               /\ pending' = pending
               /\ captured' = captured
               /\ finished' = finished
               /\ tap' = tap]_vars

C11_Witness ==
    /\ call.op = "queue_read"
    /\ ret = <<1>>
    /\ finished = 1
    /\ Len(captured) = QueueCap + 1
    /\ Len(pending) = QueueCap
    /\ wire # <<>>

C15_FlushIsNoOp ==
    [][call'.op = "flush" =>
          /\ wire' = <<>>
          /\ err' = "none"
          /\ tap' = tap
          /\ line' = line
          /\ pending' = pending
          /\ captured' = captured
          /\ finished' = finished
          /\ reg' = reg
          /\ rx' = rx]_vars

C15_Witness ==
    /\ call.op = "flush"
    /\ wire = <<>>
    /\ err = "none"
    /\ Len(pending) = QueueCap
    /\ tap \in ShiftStates

----------------------------------------------------------------------------
\* The loopback and the order of the commands.

\* C13: a pattern of n bits written with write_data into the loopback
\* register of n bits and then shifted through with read_write_data of the
\* same bit count comes back as written: ceil(n/8) bytes, least-significant
\* bit first, the unused high bits zero, the bit of the last edge included.
C13_LoopbackRoundTrip ==
    [][(call.op = "write_data" /\ err = "none" /\ call'.op = "read_write_data") =>
          /\ err' = "none"
          /\ ret' = PackBytes(DataBits(call.data, call.bits))]_vars

====
